---------------------------- MODULE Spec2Model ----------------------------
(***************************************************************************)
(* Segmented asynchronous downloader: chunk planning (calc_file_chunks,    *)
(* verify_splitted_chunks) and the download pipeline of download_file      *)
(* (download_part tasks, show_download_progress, merge_file_parts,         *)
(* delete_file) running on one asyncio event loop.                         *)
(*                                                                         *)
(* A step of a task is the code between two points where the coroutine     *)
(* really suspends.  A file byte is named by its offset in the remote      *)
(* file, so the content of a segment file is a sequence of offsets.        *)
(***************************************************************************)
EXTENDS Integers, Sequences, FiniteSets, TLC

\* ------------------------------------------------------------------ bounds
\* Planner specification: inputs of calc_file_chunks.
MaxPlanSize == 14
MaxPlanChunk == 4
\* Pipeline specification: the file size and the chunk bound of one download.
MaxFileSize == 2
MaxChunk == 2
\* merge_file_parts specification: the plans whose segments are merged.
MaxMergeSize == 8
MaxMergeChunk == 3
\* full-queue specification: the bytes a file has more than the queue holds.
MaxOverflow == 2

\* ------------------------------------------------------- program constants
\* asyncio.Queue(100)
QueueSize == 100
\* response.content.read(10 * 1024 * 1024)
ReadBufSize == 10485760
\* default_total_parts = 3
DefaultTotalParts == 3
\* the cap of the part count, default_total_parts < 6
MaxTotalParts == 6

VARIABLES
    \* inputs of download_file / calc_file_chunks
    file_size, min_chunk_size, max_chunk_size,
    \* the network: the most bytes one read of a response body returns
    net_burst,
    \* the plan: splitted_parts (sequence of <<start_byte, end_byte>>), chunk
    splitted_parts, chunk_size,
    \* planner specification only: position of the caller of calc_file_chunks
    plan_pc,
    \* download_file: position, the local `downloaded`, the local `saved`,
    \* and how the call ended ("running", "returned", "raised")
    opc, downloaded_ok, saved, outcome,
    \* download_part tasks: position, bytes received so far, chunk in hand
    fpc, received, chunk,
    \* the shared asyncio.Queue
    queue,
    \* show_download_progress: position, locals downloaded and finished
    aggpc, downloaded, finished,
    \* history: events the aggregator has consumed, by kind
    sentinels_seen, bytes_seen,
    \* history: what the last pass of the aggregator's loop did
    last_tick,
    \* history: sentinels each download_part has put
    sentinels_put,
    \* the temporary directory: whether it exists, which .partN files exist
    \* and their contents
    tmp_exists, part_exists, part_data,
    \* delete_file tasks of the cleanup gather
    dpc,
    \* merge_file_parts: position, current part id; the output file
    mpc, merge_id, out_exists, out_data

vars == <<file_size, min_chunk_size, max_chunk_size, net_burst,
          splitted_parts, chunk_size,
          plan_pc, opc, downloaded_ok, saved, outcome, fpc, received, chunk,
          queue, aggpc, downloaded, finished, sentinels_seen, bytes_seen,
          last_tick, sentinels_put, tmp_exists, part_exists, part_data, dpc,
          mpc, merge_id, out_exists, out_data>>

planVars == <<file_size, min_chunk_size, max_chunk_size, net_burst,
              splitted_parts, chunk_size>>
orchVars == <<opc, downloaded_ok, saved, outcome>>
fetchVars == <<fpc, received, chunk, sentinels_put>>
aggVars == <<aggpc, downloaded, finished, sentinels_seen, bytes_seen,
             last_tick>>
diskVars == <<tmp_exists, part_exists, part_data>>
mergeVars == <<mpc, merge_id, out_exists, out_data>>

\* ----------------------------------------------------------- calc_file_chunks
\* math.ceil(a / b) for a >= 0, b >= 1 (exact below 2^53)
Ceil(a, b) == (a + b - 1) \div b

Min(a, b) == IF a < b THEN a ELSE b

\* a slip: `if` for `while`, the part count is lowered once at most
DecreasePartsOnce(size, min_chunk, total_parts) ==
    IF Ceil(size, min_chunk) < total_parts /\ total_parts > 1
    THEN total_parts - 1
    ELSE total_parts

\* first while loop: lower the part count while the file is too small
RECURSIVE DecreaseParts(_, _, _)
DecreaseParts(size, min_chunk, total_parts) ==
    IF Ceil(size, min_chunk) < total_parts /\ total_parts > 1
    THEN DecreaseParts(size, min_chunk, total_parts - 1)
    ELSE total_parts

\* a slip in the second loop: the cap of 6 is forgotten below 7
RECURSIVE IncreasePartsLateCap(_, _, _)
IncreasePartsLateCap(size, max_chunk, total_parts) ==
    IF Ceil(size, max_chunk) > total_parts /\ total_parts < MaxTotalParts + 1
    THEN IncreasePartsLateCap(size, max_chunk, total_parts + 1)
    ELSE total_parts

\* a slip: `if` for `while`, the part count is raised once at most
IncreasePartsOnce(size, max_chunk, total_parts) ==
    IF Ceil(size, max_chunk) > total_parts /\ total_parts < MaxTotalParts
    THEN total_parts + 1
    ELSE total_parts

\* second while loop: raise the part count while the parts are too large
RECURSIVE IncreaseParts(_, _, _)
IncreaseParts(size, max_chunk, total_parts) ==
    IF Ceil(size, max_chunk) > total_parts /\ total_parts < MaxTotalParts
    THEN IncreaseParts(size, max_chunk, total_parts + 1)
    ELSE total_parts

\* file_total_size: the part count after both loops, at least 1
FileTotalParts(size, min_chunk, max_chunk) ==
    LET n == IncreaseParts(size, max_chunk,
                 DecreaseParts(size, min_chunk, DefaultTotalParts))
    IN  IF n < 1 THEN 1 ELSE n

\* chunk = ceil(file_size / file_total_size)
ChunkOf(size, min_chunk, max_chunk) ==
    Ceil(size, FileTotalParts(size, min_chunk, max_chunk))

\* the body of the for loop, iteration i (0-based)
PartRange(size, chunk_len, i) ==
    LET start_byte == i * chunk_len
        end_byte == start_byte + chunk_len
    IN  <<start_byte, (IF end_byte > size THEN size ELSE end_byte) - 1>>

\* splitted_parts as returned
CalcFileChunks(size, min_chunk, max_chunk) ==
    [k \in 1..FileTotalParts(size, min_chunk, max_chunk) |->
        PartRange(size, ChunkOf(size, min_chunk, max_chunk), k - 1)]

\* calc_size of verify_splitted_chunks
RECURSIVE CalcSize(_)
CalcSize(parts) ==
    IF parts = <<>> THEN 0
    ELSE (parts[1][2] - parts[1][1] + 1) + CalcSize(Tail(parts))

\* verify_splitted_chunks: TRUE when the assertion passes
VerifySplittedChunks(parts, size) == CalcSize(parts) = size


\* --------------------------------------------------------------- shared views
total_parts == Len(splitted_parts)
Parts == 1..total_parts

\* bytes of the Range header "bytes=start-end" of part i (none when the
\* range is inverted)
RangeLen(i) ==
    IF splitted_parts[i][2] >= splitted_parts[i][1]
    THEN splitted_parts[i][2] - splitted_parts[i][1] + 1 ELSE 0

\* the bytes (offsets in the remote file) of part i from its n-th, k of them
RangeBytes(i, n, k) == [j \in 1..k |-> splitted_parts[i][1] + n + j - 1]

\* the event loop of asyncio.run is alive until download_file ends; the tasks
\* still pending then are cancelled
LoopRunning == outcome = "running"

\* before the first pass of the aggregator's loop
NoTick == [ticked |-> FALSE, zero_bytes |-> TRUE, rendered |-> FALSE,
           zero_division |-> FALSE]

\* state of everything download_file has not started yet
PipelineIdle ==
    /\ opc = "PLANNING" /\ downloaded_ok = "unset" /\ saved = "unbound"
    /\ outcome = "running"
    /\ fpc = <<>> /\ received = <<>> /\ chunk = <<>> /\ sentinels_put = <<>>
    /\ queue = <<>>
    /\ aggpc = "idle" /\ downloaded = 0 /\ finished = 0
    /\ sentinels_seen = 0 /\ bytes_seen = 0 /\ last_tick = NoTick
    /\ tmp_exists = FALSE /\ part_exists = <<>> /\ part_data = <<>>
    /\ dpc = <<>>
    /\ mpc = "idle" /\ merge_id = 1 /\ out_exists = FALSE /\ out_data = <<>>

\* ------------------------------------------------ planner specification
InitPlan ==
    /\ file_size \in 0..MaxPlanSize
    /\ min_chunk_size \in 1..MaxPlanChunk
    /\ max_chunk_size \in 1..MaxPlanChunk
    /\ net_burst = ReadBufSize
    /\ splitted_parts = <<>> /\ chunk_size = 0
    /\ plan_pc = "call"
    /\ PipelineIdle

\* splitted_parts, chunk_size = calc_file_chunks(file_size, min, max)
PlanCall ==
    /\ plan_pc = "call"
    /\ splitted_parts' = CalcFileChunks(file_size, min_chunk_size, max_chunk_size)
    /\ chunk_size' = ChunkOf(file_size, min_chunk_size, max_chunk_size)
    /\ plan_pc' = "verify"
    /\ UNCHANGED <<file_size, min_chunk_size, max_chunk_size, net_burst>>
    /\ UNCHANGED <<orchVars, fetchVars, aggVars, diskVars, mergeVars, queue, dpc>>

\* verify_splitted_chunks(splitted_parts, file_size)
PlanVerify ==
    /\ plan_pc = "verify"
    /\ plan_pc' = IF VerifySplittedChunks(splitted_parts, file_size)
                  THEN "verified" ELSE "AssertionError"
    /\ UNCHANGED <<planVars, orchVars, fetchVars, aggVars, diskVars, mergeVars,
                   queue, dpc>>

NextPlan == PlanCall \/ PlanVerify

SpecPlan == InitPlan /\ [][NextPlan]_vars

\* ------------------------------------------------ download_file: planning
\* download_file is called for a file of file_size bytes (the Content-Length
\* of the HEAD request) with chunk bounds min_chunk_size <= max_chunk_size.
Init ==
    /\ file_size \in 1..MaxFileSize
    /\ min_chunk_size \in 1..MaxChunk
    /\ max_chunk_size \in min_chunk_size..MaxChunk
    /\ net_burst = ReadBufSize
    /\ splitted_parts = <<>> /\ chunk_size = 0
    /\ plan_pc = "pipeline"
    /\ PipelineIdle

\* calc_file_chunks, verify_splitted_chunks, the queue, the temporary
\* directory and the gather that creates the tasks
PlanAndLaunch ==
    /\ opc = "PLANNING" /\ LoopRunning
    /\ LET parts == CalcFileChunks(file_size, min_chunk_size, max_chunk_size)
           n == Len(parts)
       IN  /\ splitted_parts' = parts
           /\ chunk_size' = ChunkOf(file_size, min_chunk_size, max_chunk_size)
           /\ IF VerifySplittedChunks(parts, file_size)
              THEN /\ opc' = "FETCHING"
                   /\ outcome' = outcome
                   /\ tmp_exists' = TRUE
                   /\ fpc' = [i \in 1..n |-> "get"]
                   /\ received' = [i \in 1..n |-> 0]
                   /\ chunk' = [i \in 1..n |-> 0]
                   /\ sentinels_put' = [i \in 1..n |-> 0]
                   /\ part_exists' = [i \in 1..n |-> FALSE]
                   /\ part_data' = [i \in 1..n |-> <<>>]
                   /\ dpc' = [i \in 1..n |-> "idle"]
                   /\ aggpc' = "loop"
              ELSE /\ opc' = "FAILED"
                   /\ outcome' = "raised"
                   /\ UNCHANGED <<tmp_exists, fpc, received, chunk, sentinels_put,
                                  part_exists, part_data, dpc, aggpc>>
    /\ UNCHANGED <<file_size, min_chunk_size, max_chunk_size, net_burst, plan_pc,
                   downloaded_ok, saved, queue, downloaded, finished,
                   sentinels_seen, bytes_seen, last_tick, mergeVars>>

\* ----------------------------------------------------------- download_part
\* session.get(url) answers: the response headers have arrived
GetResponse(i) ==
    /\ LoopRunning /\ fpc[i] = "get"
    /\ fpc' = [fpc EXCEPT ![i] = "open"]
    /\ UNCHANGED <<planVars, plan_pc, orchVars, received, chunk, sentinels_put,
                   queue, aggVars, diskVars, dpc, mergeVars>>

\* aiofiles.open(file_path, "wb"): creates or truncates the segment file;
\* raises when the temporary directory is gone
OpenPart(i) ==
    /\ LoopRunning /\ fpc[i] = "open"
    /\ IF tmp_exists
       THEN /\ fpc' = [fpc EXCEPT ![i] = "read"]
            /\ part_exists' = [part_exists EXCEPT ![i] = TRUE]
            /\ part_data' = [part_data EXCEPT ![i] = <<>>]
       ELSE /\ fpc' = [fpc EXCEPT ![i] = "failed"]
            /\ UNCHANGED <<part_exists, part_data>>
    /\ UNCHANGED <<planVars, plan_pc, orchVars, received, chunk, sentinels_put,
                   queue, aggVars, tmp_exists, dpc, mergeVars>>

\* chunk = await response.content.read(10 MiB), non-empty: what has arrived
\* of the rest of the range, at most the buffer size
ReadChunk(i) ==
    /\ LoopRunning /\ fpc[i] = "read"
    /\ \E k \in 1..Min(Min(RangeLen(i) - received[i], ReadBufSize), net_burst) :
          /\ chunk' = [chunk EXCEPT ![i] = k]
          /\ fpc' = [fpc EXCEPT ![i] = "write"]
    /\ UNCHANGED <<planVars, plan_pc, orchVars, received, sentinels_put,
                   queue, aggVars, diskVars, dpc, mergeVars>>

\* the read returns b"": break, and the three `async with` blocks are left
ReadEnd(i) ==
    /\ LoopRunning /\ fpc[i] = "read"
    /\ received[i] = RangeLen(i)
    /\ fpc' = [fpc EXCEPT ![i] = "sentinel"]
    /\ UNCHANGED <<planVars, plan_pc, orchVars, received, chunk, sentinels_put,
                   queue, aggVars, diskVars, dpc, mergeVars>>

\* await afw.write(chunk): the bytes go to the file the handle was opened on
\* (an unlinked file takes them too, and stays unlinked)
WriteChunk(i) ==
    /\ LoopRunning /\ fpc[i] = "write"
    /\ part_data' = [part_data EXCEPT ![i] =
          IF part_exists[i]
          THEN @ \o RangeBytes(i, received[i], chunk[i]) ELSE @]
    /\ received' = [received EXCEPT ![i] = @ + chunk[i]]
    /\ fpc' = [fpc EXCEPT ![i] = "put"]
    /\ UNCHANGED <<planVars, plan_pc, orchVars, chunk, sentinels_put, queue,
                   aggVars, tmp_exists, part_exists, dpc, mergeVars>>

\* a slip: the queue is created without a capacity, asyncio.Queue()
PutChunkUnbounded(i) ==
    /\ LoopRunning /\ fpc[i] = "put"
    /\ queue' = Append(queue, chunk[i])
    /\ fpc' = [fpc EXCEPT ![i] = "read"]
    /\ UNCHANGED <<planVars, plan_pc, orchVars, received, chunk, sentinels_put,
                   aggVars, diskVars, dpc, mergeVars>>

\* await queue.put(len(chunk)): suspended while the queue is full
PutChunk(i) ==
    /\ LoopRunning /\ fpc[i] = "put"
    /\ Len(queue) < QueueSize
    /\ queue' = Append(queue, chunk[i])
    /\ fpc' = [fpc EXCEPT ![i] = "read"]
    /\ UNCHANGED <<planVars, plan_pc, orchVars, received, chunk, sentinels_put,
                   aggVars, diskVars, dpc, mergeVars>>

\* await queue.put(-1), the last statement of download_part
PutSentinel(i) ==
    /\ LoopRunning /\ fpc[i] = "sentinel"
    /\ Len(queue) < QueueSize
    /\ queue' = Append(queue, -1)
    /\ sentinels_put' = [sentinels_put EXCEPT ![i] = @ + 1]
    /\ fpc' = [fpc EXCEPT ![i] = "done"]
    /\ UNCHANGED <<planVars, plan_pc, orchVars, received, chunk,
                   aggVars, diskVars, dpc, mergeVars>>

\* the request, a read or a write raises: the exception leaves the `async with`
\* blocks and download_part; nothing catches it
FetchRaises(i) ==
    /\ LoopRunning /\ fpc[i] \in {"get", "read", "write"}
    /\ fpc' = [fpc EXCEPT ![i] = "failed"]
    /\ UNCHANGED <<planVars, plan_pc, orchVars, received, chunk, sentinels_put,
                   queue, aggVars, diskVars, dpc, mergeVars>>

\* ------------------------------------------------- show_download_progress
\* the sum of q[lo..hi], by halves (the recursion stays shallow on a full queue)
RECURSIVE SumRange(_, _, _)
SumRange(q, lo, hi) ==
    IF lo > hi THEN 0
    ELSE IF lo = hi THEN q[lo]
    ELSE LET mid == (lo + hi) \div 2
         IN  SumRange(q, lo, mid) + SumRange(q, mid + 1, hi)

\* finished after the inner while loop has drained q: one more for every
\* event that is not -1
DrainFinished(q, n) ==
    n + Cardinality({j \in 1..Len(q) : q[j] # -1})

\* download_per_second after the inner while loop has drained q: the sum of
\* every event, -1 included
DrainPerSecond(q) == SumRange(q, 1, Len(q))

\* the sentinels among the events of q
CountSentinels(q) == Cardinality({j \in 1..Len(q) : q[j] = -1})

\* the sum of the positive events of q
SumPositive(q) ==
    SumRange([j \in 1..Len(q) |-> IF q[j] > 0 THEN q[j] ELSE 0], 1, Len(q))

\* a slip: the progress line is rendered unless the delta is negative
RendersNonNegative(per_second) == per_second >= 0

\* if download_per_second > 0: the progress line is computed and printed
Renders(per_second) == per_second > 0

\* what a pass that drains q does after the drain: whether bytes arrived,
\* whether the line is rendered (the two divisions, by total_size and by
\* download_per_second, are evaluated exactly then), whether a divisor is 0
TickReport(q, total_size) ==
    [ticked |-> TRUE,
     zero_bytes |-> SumPositive(q) = 0,
     rendered |-> Renders(DrainPerSecond(q)),
     zero_division |-> Renders(DrainPerSecond(q))
                        /\ (total_size = 0 \/ DrainPerSecond(q) = 0)]

\* one pass of the outer loop: the queue is drained without suspending
\* (queue.get() of a non-empty queue returns at once), then sleep(1)
AggTick ==
    /\ LoopRunning /\ aggpc = "loop"
    /\ finished # total_parts
    /\ finished' = DrainFinished(queue, finished)
    /\ downloaded' = downloaded + DrainPerSecond(queue)
    /\ sentinels_seen' = sentinels_seen + CountSentinels(queue)
    /\ bytes_seen' = bytes_seen + SumPositive(queue)
    /\ last_tick' = TickReport(queue, file_size)
    /\ queue' = <<>>
    /\ UNCHANGED <<planVars, plan_pc, orchVars, fetchVars, aggpc, diskVars,
                   dpc, mergeVars>>

\* the outer loop condition fails: show_download_progress returns
AggReturn ==
    /\ LoopRunning /\ aggpc = "loop"
    /\ finished = total_parts
    /\ aggpc' = "returned"
    /\ UNCHANGED <<planVars, plan_pc, orchVars, fetchVars, queue, downloaded,
                   finished, sentinels_seen, bytes_seen, last_tick, diskVars,
                   dpc, mergeVars>>

\* ------------------------------------------------- download_file: the join
\* a slip: only the progress task is awaited
GatherDoneProgressOnly == aggpc = "returned"

\* asyncio.gather(...) has a result: every child has returned
GatherDone ==
    /\ aggpc = "returned"
    /\ \A i \in Parts : fpc[i] = "done"

\* asyncio.gather(...) without return_exceptions has an exception: the first
\* child that raises sets it, the other children keep running
GatherRaised == \E i \in Parts : fpc[i] = "failed"

\* `await download_future` returns: downloaded = True, merge_file_parts is called
AwaitDownloadReturns ==
    /\ LoopRunning /\ opc = "FETCHING"
    /\ GatherDone
    /\ downloaded_ok' = "True"
    /\ opc' = "MERGING"
    /\ mpc' = "open"
    /\ UNCHANGED <<planVars, plan_pc, saved, outcome, fetchVars, queue, aggVars,
                   diskVars, dpc, merge_id, out_exists, out_data>>

\* a slip: the except branch sets downloaded = True
AwaitDownloadRaisesThenMerges ==
    /\ LoopRunning /\ opc = "FETCHING"
    /\ GatherRaised
    /\ downloaded_ok' = "True"
    /\ opc' = "MERGING"
    /\ mpc' = "open"
    /\ UNCHANGED <<planVars, plan_pc, saved, outcome, fetchVars, queue, aggVars,
                   diskVars, dpc, merge_id, out_exists, out_data>>

\* `await download_future` raises: downloaded = False, the delete_file tasks
\* are gathered
AwaitDownloadRaises ==
    /\ LoopRunning /\ opc = "FETCHING"
    /\ GatherRaised
    /\ downloaded_ok' = "False"
    /\ opc' = "CLEANING_UP"
    /\ dpc' = [i \in Parts |-> "check"]
    /\ UNCHANGED <<planVars, plan_pc, saved, outcome, fetchVars, queue, aggVars,
                   diskVars, mergeVars>>

\* ---------------------------------------------------------- merge_file_parts
\* aiofiles.open(file_name, "wb"): the output file is created
MergeOpenOutput ==
    /\ LoopRunning /\ opc = "MERGING" /\ mpc = "open"
    /\ out_exists' = TRUE
    /\ out_data' = <<>>
    /\ merge_id' = 1
    /\ mpc' = "copy"
    /\ UNCHANGED <<planVars, plan_pc, orchVars, fetchVars, queue, aggVars,
                   diskVars, dpc>>

\* a slip: the segment is written in front of what the output holds
MergeCopyPartPrepends ==
    /\ LoopRunning /\ opc = "MERGING" /\ mpc = "copy"
    /\ part_exists[merge_id]
    /\ out_data' = part_data[merge_id] \o out_data
    /\ mpc' = "delete"
    /\ UNCHANGED <<planVars, plan_pc, orchVars, fetchVars, queue, aggVars,
                   diskVars, dpc, merge_id, out_exists>>

\* the segment file of part_id is opened and copied to the output; opening a
\* missing segment file raises out of merge_file_parts and download_file
MergeCopyPart ==
    /\ LoopRunning /\ opc = "MERGING" /\ mpc = "copy"
    /\ IF part_exists[merge_id]
       THEN /\ out_data' = out_data \o part_data[merge_id]
            /\ mpc' = "delete"
            /\ UNCHANGED <<opc, outcome, tmp_exists, part_exists>>
       ELSE /\ mpc' = "raised"
            /\ opc' = "FAILED"
            /\ outcome' = "raised"
            /\ tmp_exists' = FALSE
            /\ part_exists' = [i \in Parts |-> FALSE]
            /\ UNCHANGED out_data
    /\ UNCHANGED <<planVars, plan_pc, downloaded_ok, saved, fetchVars, queue,
                   aggVars, part_data, dpc, merge_id, out_exists>>

\* await delete_file(file_part, temp_dir), then the next part_id
MergeDeletePart ==
    /\ LoopRunning /\ opc = "MERGING" /\ mpc = "delete"
    /\ part_exists' = [part_exists EXCEPT ![merge_id] = FALSE]
    /\ merge_id' = merge_id + 1
    /\ mpc' = IF merge_id = total_parts THEN "done" ELSE "copy"
    /\ UNCHANGED <<planVars, plan_pc, orchVars, fetchVars, queue, aggVars,
                   tmp_exists, part_data, dpc, out_exists, out_data>>

\* return True; saved = True
MergeReturns ==
    /\ LoopRunning /\ opc = "MERGING" /\ mpc = "done"
    /\ saved' = "True"
    /\ opc' = "EXIT_TMP"
    /\ UNCHANGED <<planVars, plan_pc, downloaded_ok, outcome, fetchVars, queue,
                   aggVars, diskVars, dpc, mergeVars>>

\* ---------------------------------------------------- delete_file (cleanup)
\* the delete_file tasks of the gather run until the event loop is closed,
\* also after the gather has raised into download_file
CleanupTasksLive == opc \in {"CLEANING_UP", "EXIT_TMP_RAISING"}

\* os.path.exists(file_path): a missing file ends the task
DeleteCheck(i) ==
    /\ LoopRunning /\ CleanupTasksLive /\ dpc[i] = "check"
    /\ dpc' = [dpc EXCEPT ![i] = IF part_exists[i] THEN "remove" ELSE "done"]
    /\ UNCHANGED <<planVars, plan_pc, orchVars, fetchVars, queue, aggVars,
                   diskVars, mergeVars>>

\* await os_remove(file_path): the file is unlinked (by a worker thread)
DeleteRemove(i) ==
    /\ LoopRunning /\ CleanupTasksLive /\ dpc[i] = "remove"
    /\ part_exists' = [part_exists EXCEPT ![i] = FALSE]
    /\ dpc' = [dpc EXCEPT ![i] = "done"]
    /\ UNCHANGED <<planVars, plan_pc, orchVars, fetchVars, queue, aggVars,
                   tmp_exists, part_data, mergeVars>>

\* await os_remove(file_path) raises OSError: nothing in delete_file catches
\* it, the task ends with the exception and the file stays
DeleteRaises(i) ==
    /\ LoopRunning /\ CleanupTasksLive /\ dpc[i] = "remove"
    /\ dpc' = [dpc EXCEPT ![i] = "raised"]
    /\ UNCHANGED <<planVars, plan_pc, orchVars, fetchVars, queue, aggVars,
                   diskVars, mergeVars>>

\* `await delete_file_future` raises: the gather hands the first exception of
\* a delete_file task to download_file, which has no handler around it. Every
\* task of the gather has run up to its os_remove by then (they were made
\* ready before any os_remove could complete).
CleanupRaises ==
    /\ LoopRunning /\ opc = "CLEANING_UP"
    /\ \E i \in Parts : dpc[i] = "raised"
    /\ \A i \in Parts : dpc[i] # "check"
    /\ opc' = "EXIT_TMP_RAISING"
    /\ UNCHANGED <<planVars, plan_pc, downloaded_ok, saved, outcome, fetchVars,
                   queue, aggVars, diskVars, dpc, mergeVars>>

\* `await delete_file_future` returns
CleanupReturns ==
    /\ LoopRunning /\ opc = "CLEANING_UP"
    /\ \A i \in Parts : dpc[i] = "done"
    /\ opc' = "EXIT_TMP"
    /\ UNCHANGED <<planVars, plan_pc, downloaded_ok, saved, outcome, fetchVars,
                   queue, aggVars, diskVars, dpc, mergeVars>>

\* ------------------------------------------------ download_file: the end
\* the `async with TemporaryDirectory()` block is left: the directory and
\* what it holds are removed; an exception that is leaving the block goes on
\* out of download_file
ExitTempDir ==
    /\ LoopRunning /\ opc \in {"EXIT_TMP", "EXIT_TMP_RAISING"}
    /\ tmp_exists' = FALSE
    /\ part_exists' = [i \in Parts |-> FALSE]
    /\ IF opc = "EXIT_TMP"
       THEN opc' = "RETURN" /\ outcome' = outcome
       ELSE opc' = "CLEANUP_ERROR" /\ outcome' = "raised"
    /\ UNCHANGED <<planVars, plan_pc, downloaded_ok, saved, fetchVars,
                   queue, aggVars, part_data, dpc, mergeVars>>

\* return saved: a local that was never assigned raises UnboundLocalError
ReturnSaved ==
    /\ LoopRunning /\ opc = "RETURN"
    /\ IF saved = "unbound"
       THEN outcome' = "raised" /\ opc' = "FAILED"
       ELSE outcome' = "returned" /\ opc' = "DONE"
    /\ UNCHANGED <<planVars, plan_pc, downloaded_ok, saved, fetchVars, queue,
                   aggVars, diskVars, dpc, mergeVars>>

\* ------------------------------------------------------------ specification
Fetch(i) ==
    \/ GetResponse(i) \/ OpenPart(i) \/ ReadChunk(i) \/ ReadEnd(i)
    \/ WriteChunk(i) \/ PutChunk(i) \/ PutSentinel(i)

Next ==
    \/ PlanAndLaunch
    \/ \E i \in Parts : Fetch(i)
    \/ \E i \in Parts : FetchRaises(i)
    \/ AggTick \/ AggReturn
    \/ AwaitDownloadReturns \/ AwaitDownloadRaises
    \/ MergeOpenOutput \/ MergeCopyPart \/ MergeDeletePart \/ MergeReturns
    \/ \E i \in Parts : DeleteCheck(i)
    \/ \E i \in Parts : DeleteRemove(i)
    \/ \E i \in Parts : DeleteRaises(i)
    \/ CleanupReturns \/ CleanupRaises \/ ExitTempDir \/ ReturnSaved

Spec == Init /\ [][Next]_vars

\* The event loop runs every task that is ready; whether a request, a read or
\* a write raises is the network's and the disk's choice.
Fairness ==
    /\ WF_vars(PlanAndLaunch)
    /\ \A i \in 1..MaxTotalParts : WF_vars(i \in Parts /\ Fetch(i))
    /\ WF_vars(AggTick) /\ WF_vars(AggReturn)
    /\ WF_vars(AwaitDownloadReturns) /\ WF_vars(AwaitDownloadRaises)
    /\ WF_vars(MergeOpenOutput) /\ WF_vars(MergeCopyPart)
    /\ WF_vars(MergeDeletePart) /\ WF_vars(MergeReturns)
    /\ \A i \in 1..MaxTotalParts :
          WF_vars(i \in Parts /\ (DeleteCheck(i) \/ DeleteRemove(i)))
    /\ WF_vars(CleanupReturns) /\ WF_vars(CleanupRaises)
    /\ WF_vars(ExitTempDir) /\ WF_vars(ReturnSaved)

FairSpec == Init /\ [][Next]_vars /\ Fairness

\* ------------------------------------------------- full-queue specification
\* download_file of a one-part file whose body arrives one byte per read: a
\* file of more bytes than the queue holds events, or of a few bytes
InitQueue ==
    /\ file_size \in (1..MaxOverflow) \cup ((QueueSize + 1)..(QueueSize + MaxOverflow))
    /\ min_chunk_size = file_size
    /\ max_chunk_size = file_size
    /\ net_burst = 1
    /\ splitted_parts = <<>> /\ chunk_size = 0
    /\ plan_pc = "pipeline"
    /\ PipelineIdle

SpecQueue == InitQueue /\ [][Next]_vars

\* ------------------------------------------- merge_file_parts specification
\* merge_file_parts is called with ids 1..N on a plan of calc_file_chunks
\* whose segment files each hold exactly the bytes of their range
InitMerge ==
    /\ file_size \in 1..MaxMergeSize
    /\ min_chunk_size \in 1..MaxMergeChunk
    /\ max_chunk_size \in min_chunk_size..MaxMergeChunk
    /\ net_burst = ReadBufSize
    /\ splitted_parts = CalcFileChunks(file_size, min_chunk_size, max_chunk_size)
    /\ chunk_size = ChunkOf(file_size, min_chunk_size, max_chunk_size)
    /\ plan_pc = "merge"
    /\ opc = "MERGING" /\ downloaded_ok = "True" /\ saved = "unbound"
    /\ outcome = "running"
    /\ fpc = [i \in Parts |-> "done"]
    /\ received = [i \in Parts |-> RangeLen(i)]
    /\ chunk = [i \in Parts |-> 0]
    /\ sentinels_put = [i \in Parts |-> 1]
    /\ queue = <<>>
    /\ aggpc = "returned" /\ downloaded = 0 /\ finished = total_parts
    /\ sentinels_seen = 0 /\ bytes_seen = 0 /\ last_tick = NoTick
    /\ tmp_exists = TRUE
    /\ part_exists = [i \in Parts |-> TRUE]
    /\ part_data = [i \in Parts |-> RangeBytes(i, 0, RangeLen(i))]
    /\ dpc = [i \in Parts |-> "idle"]
    /\ mpc = "open" /\ merge_id = 1 /\ out_exists = FALSE /\ out_data = <<>>

NextMerge ==
    \/ MergeOpenOutput \/ MergeCopyPart \/ MergeDeletePart \/ MergeReturns
    \/ ExitTempDir \/ ReturnSaved

SpecMerge == InitMerge /\ [][NextMerge]_vars

\* ------------------------------------------------------------------ claims
\* the plan is there: calc_file_chunks has returned
Planned == plan_pc \in {"verify", "verified", "AssertionError"}

\* first start 0, each later start the previous end + 1, last end size - 1,
\* and every range ends before each later one starts
ContiguousCover(parts, size) ==
    /\ Len(parts) >= 1
    /\ parts[1][1] = 0
    /\ \A k \in 2..Len(parts) : parts[k][1] = parts[k - 1][2] + 1
    /\ parts[Len(parts)][2] = size - 1
    /\ \A k \in 1..Len(parts) : \A l \in (k + 1)..Len(parts) :
          parts[k][2] < parts[l][1]

\* C1: for file_size > 0 and 1 <= min_chunk_size <= max_chunk_size the ranges
\* of calc_file_chunks are contiguous, ascending and non-overlapping, their
\* lengths sum to file_size, and verify_splitted_chunks does not raise.
C1_PlanCoversFile ==
    (Planned /\ file_size > 0 /\ min_chunk_size <= max_chunk_size) =>
        /\ ContiguousCover(splitted_parts, file_size)
        /\ CalcSize(splitted_parts) = file_size
        /\ plan_pc # "AssertionError"

\* C2: for file_size >= 0 and min_chunk_size, max_chunk_size >= 1 the number
\* of ranges is in 1..6; it is above 3 only if ceil(file_size / max_chunk_size)
\* > 3 and below 3 only if ceil(file_size / min_chunk_size) < 3.
C2_PartCountBounds ==
    Planned =>
        /\ total_parts >= 1 /\ total_parts <= 6
        /\ (total_parts > 3 => Ceil(file_size, max_chunk_size) > 3)
        /\ (total_parts < 3 => Ceil(file_size, min_chunk_size) < 3)

\* C2 witness: a plan that was raised to the cap although more parts were
\* called for, from bounds that first lowered the count
C2_Witness ==
    /\ Planned /\ total_parts = 6
    /\ Ceil(file_size, max_chunk_size) > 6
    /\ Ceil(file_size, min_chunk_size) < 3

\* C3: with every fetcher putting its events and then one sentinel, the
\* aggregator counts sentinels only (never a positive event) and has returned
\* only when it has consumed total_parts sentinels.
C3_AggregatorCountsSentinels ==
    (opc = "FETCHING" /\ ~GatherRaised) =>
        /\ finished = sentinels_seen
        /\ (aggpc = "returned" => sentinels_seen = total_parts)

\* C4: every download_part that has ended, by returning or by raising, has put
\* exactly one sentinel, and none puts a sentinel before it has ended its
\* positive events.
C4_OneSentinelPerFetcher ==
    \A i \in Parts :
        /\ (fpc[i] \in {"done", "failed"} => sentinels_put[i] = 1)
        /\ (sentinels_put[i] >= 1 => fpc[i] = "done" /\ sentinels_put[i] = 1)

\* C5: under fair scheduling, when no fetcher raises, download_file leaves
\* FETCHING, merges and ends in DONE returning true.
C5_SuccessfulRunCompletes ==
    <>(GatherRaised \/ (opc = "DONE" /\ outcome = "returned" /\ saved = "True"))

\* C6: when a fetcher has failed, download_file ends in FAILED by returning
\* false, not by raising.
C6_FailureReturnsFalse ==
    (GatherRaised /\ outcome # "running") =>
        (opc = "FAILED" /\ outcome = "returned" /\ saved = "False")

\* C7: when a fetcher has failed and the cleanup has completed, no segment
\* file of the plan exists in the temporary directory.
C7_CleanupLeavesNoSegment ==
    (opc = "EXIT_TMP" /\ downloaded_ok = "False") =>
        \A i \in Parts : ~part_exists[i]

\* C8: the orchestrator has decided (it is cleaning up or merging) only when
\* every fetcher has ended, by success or by failure.
C8_DecidesAfterAllFetchers ==
    opc \in {"CLEANING_UP", "MERGING"} =>
        \A i \in Parts : fpc[i] \in {"done", "failed"}

\* C9: while the orchestrator is in MERGING every fetcher has returned
\* successfully, and every segment file not yet consumed by the merge exists
\* and holds the complete range.
C9_MergeOnlyAfterAllSucceeded ==
    opc = "MERGING" =>
        \A i \in Parts :
            /\ fpc[i] = "done"
            /\ received[i] = RangeLen(i)
            /\ (i >= merge_id =>
                   /\ part_exists[i]
                   /\ part_data[i] = RangeBytes(i, 0, RangeLen(i)))

\* C9 witness: merge_file_parts is copying the second of several segments
C9_Witness ==
    /\ opc = "MERGING" /\ mpc = "copy" /\ merge_id = 2 /\ total_parts >= 2

\* C10: the output file exists only when all fetchers have succeeded; a run
\* in which a fetcher fails never creates it.
C10_NoOutputUnlessAllSucceeded ==
    out_exists => (\A i \in Parts : fpc[i] = "done") /\ ~GatherRaised

\* C10 witness: a run in which a fetcher failed mid-stream has ended, and no
\* output file was created
C10_Witness ==
    /\ outcome # "running"
    /\ \E i \in Parts : fpc[i] = "failed" /\ received[i] > 0
    /\ ~out_exists

\* the content of the remote file: its first n bytes
Original(n) == [j \in 1..n |-> j - 1]

\* the bytes of the ranges 1..k together
RECURSIVE RangesLen(_)
RangesLen(k) == IF k = 0 THEN 0 ELSE RangeLen(k) + RangesLen(k - 1)

\* the segments merge_file_parts has copied in full
Copied == IF mpc = "delete" THEN merge_id ELSE merge_id - 1

\* C11: merge_file_parts appends the segments in ascending id order (the
\* output is always the start of the original content, up to the last segment
\* copied), a segment file is gone only when its content is in the output, and
\* at the end the output is the original content and no segment file is left.
C11_MergeReproducesContent ==
    mpc \in {"copy", "delete", "done"} =>
        /\ out_exists
        /\ out_data = Original(RangesLen(Copied))
        /\ \A i \in Parts : ~part_exists[i] => i <= Copied
        /\ (mpc = "done" =>
               /\ out_data = Original(file_size)
               /\ \A i \in Parts : ~part_exists[i])

\* C11 witness: six segments, two of them empty, have been merged
C11_Witness ==
    /\ mpc = "done" /\ total_parts = 6
    /\ \E i \in Parts : RangeLen(i) = 0
    /\ Len(out_data) = file_size

\* the bytes whose events fetcher i has put on the queue: all it has written,
\* but the chunk whose put is pending
PutBytes(i) == received[i] - (IF fpc[i] = "put" THEN chunk[i] ELSE 0)

RECURSIVE PutBytesUpTo(_)
PutBytesUpTo(k) == IF k = 0 THEN 0 ELSE PutBytes(k) + PutBytesUpTo(k - 1)

RECURSIVE SentinelsPutUpTo(_)
SentinelsPutUpTo(k) ==
    IF k = 0 THEN 0 ELSE sentinels_put[k] + SentinelsPutUpTo(k - 1)

\* C12: the queue never holds more than 100 events; a fetcher that finds it
\* full keeps its event and waits; every event put has been consumed once by
\* the aggregator or is still queued (bytes and sentinels are conserved).
C12_QueueBoundedNoLoss ==
    /\ Len(queue) <= 100
    /\ \A i \in Parts : fpc[i] = "put" => chunk[i] > 0
    /\ PutBytesUpTo(total_parts) = bytes_seen + SumPositive(queue)
    /\ SentinelsPutUpTo(total_parts) = sentinels_seen + CountSentinels(queue)

\* C12 witness: the queue is full and a fetcher is suspended in queue.put
\* with its event, after the aggregator has consumed events
C12_Witness ==
    /\ Len(queue) = 100
    /\ bytes_seen > 0
    /\ \E i \in Parts : fpc[i] = "put" /\ chunk[i] > 0

\* C13: the aggregator's cumulative downloaded equals the sum of the positive
\* events it has consumed (a sentinel adds nothing), and when it has returned
\* in a run where every fetcher succeeded it equals total_size.
C13_DownloadedIsBytesConsumed ==
    /\ downloaded = bytes_seen
    /\ (aggpc = "returned" /\ (\A i \in Parts : fpc[i] = "done")
           => downloaded = file_size)

\* C14: a pass of the aggregator's loop in which no byte was received renders
\* no line and evaluates no ETA division, and no pass divides by zero.
C14_ZeroTickRendersNothing ==
    last_tick.ticked =>
        /\ (last_tick.zero_bytes => ~last_tick.rendered)
        /\ ~last_tick.zero_division

\* C14 witness: after bytes were received, a pass received none and rendered
\* nothing while the download was still going on
C14_Witness ==
    /\ opc = "FETCHING" /\ aggpc = "loop"
    /\ bytes_seen > 0
    /\ last_tick.ticked /\ last_tick.zero_bytes /\ ~last_tick.rendered

\* the inputs the planner claims are about
ValidBounds == Planned /\ min_chunk_size <= max_chunk_size

\* C15: for 1 <= min_chunk_size <= max_chunk_size every range of
\* calc_file_chunks has 0 <= start <= end.  Stated for file_size > 0; the
\* claim covers file_size = 0 too, where the one range returned is (0, -1).
C15_RangesNotEmpty ==
    (ValidBounds /\ file_size > 0) =>
        \A k \in Parts :
            0 <= splitted_parts[k][1] /\ splitted_parts[k][1] <= splitted_parts[k][2]

\* C17 as claimed: for file_size > 0 and valid bounds, a plan of 2 or 3 ranges
\* has a nominal chunk size of at least min_chunk_size.
C17_ChunkAtLeastMin ==
    (ValidBounds /\ file_size > 0 /\ total_parts \in {2, 3}) =>
        chunk_size >= min_chunk_size

\* C17 as amended: for file_size > 0 and valid bounds, a plan of 2 or 3 ranges
\* is of a file that has more bytes than (part count - 1) chunks of
\* min_chunk_size, so ceil(file_size / min_chunk_size) >= part count and
\* part count * chunk > (part count - 1) * min_chunk_size.
C17_FileFillsPartsAtMin ==
    (ValidBounds /\ file_size > 0 /\ total_parts \in {2, 3}) =>
        /\ Ceil(file_size, min_chunk_size) >= total_parts
        /\ file_size > (total_parts - 1) * min_chunk_size
        /\ total_parts * chunk_size > (total_parts - 1) * min_chunk_size

\* C17 witness: a plan of 3 ranges whose nominal chunk is below min_chunk_size
C17_Witness ==
    /\ ValidBounds /\ file_size > 0 /\ total_parts = 3
    /\ chunk_size < min_chunk_size

\* C18: for file_size > 0 and valid bounds, in a plan of fewer than 6 ranges
\* the nominal chunk size, and so every range, is at most max_chunk_size.
C18_ChunkAtMostMaxBelowCap ==
    (ValidBounds /\ file_size > 0 /\ total_parts < 6) =>
        /\ chunk_size <= max_chunk_size
        /\ \A k \in Parts :
              splitted_parts[k][2] - splitted_parts[k][1] + 1 <= max_chunk_size

\* C18 witness: the count was raised above 3, stayed below the cap, and the
\* ranges are as long as max_chunk_size allows
C18_Witness ==
    /\ ValidBounds /\ file_size > 0 /\ total_parts \in {4, 5}
    /\ chunk_size = max_chunk_size

\* C16: no segment file is touched by delete_file or by merge_file_parts
\* while the fetcher that owns it still has it open for writing.
C16_NoSharedSegmentAccess ==
    \A i \in Parts :
        (\/ dpc[i] = "remove"
         \/ (opc = "MERGING" /\ mpc \in {"copy", "delete"} /\ merge_id = i))
            => fpc[i] \notin {"read", "write", "put"}

\* C19: in the cleanup a missing segment file is skipped without error, and
\* an os_remove that raised for one segment file leaves no other delete_file
\* unattempted and does not leave download_file as an exception.
C19_CleanupErrorContained ==
    /\ \A i \in Parts : dpc[i] = "raised" => (part_exists[i] \/ ~tmp_exists)
    /\ (\E i \in Parts : dpc[i] = "raised") =>
          /\ opc \notin {"EXIT_TMP_RAISING", "CLEANUP_ERROR"}
          /\ (outcome # "running" => \A j \in Parts : dpc[j] # "check")

\* C20: in no state has show_download_progress returned while a fetcher is
\* suspended in queue.put on a full queue.
C20_NoPutStrandedOnFullQueue ==
    ~(/\ aggpc = "returned"
      /\ Len(queue) = QueueSize
      /\ \E i \in Parts : fpc[i] \in {"put", "sentinel"})

=============================================================================
